---- MODULE Spec2Model ----
(***************************************************************************)
(* The DocNexus plugin runtime: the Loader (core/loader.py), the Registry, *)
(* the FeatureManager and the Pipeline (features/registry.py) and the      *)
(* install / uninstall routes of the host (app.py).                        *)
(*                                                                         *)
(* Python objects are modelled by a heap: heap[oid] is the object with     *)
(* identity oid, and the Registry's list and the FeatureManager's list     *)
(* hold oids, so that the two lists alias the same objects as in the code. *)
(***************************************************************************)
EXTENDS Integers, Sequences, FiniteSets, TLC

VARIABLES
    heap,         \* Seq of objects; the index is the object's identity
    _plugins,     \* PluginRegistry._plugins: Seq of oids
    _features,    \* FeatureManager._features (the active set): Seq of oids
    enabled_ids,  \* Enablement Store: identifiers with an ENABLED marker
    pc,           \* position of the host in its start-up code
    reloads,      \* number of hot reloads done so far (bounded)
    response,     \* outcome of the last administrative request
    _steps,       \* Pipeline._steps of the pipeline under execution
    input,        \* the content Pipeline.run was called with
    content,      \* the local variable content of Pipeline.run
    disk,         \* the plugin directories that exist on disk
    run_pc,       \* 0: the pipeline is being built; i: run is about to
                  \* execute step i; Len(_steps) + 1: run has returned;
                  \* -1: an exception has left run
    export_response,  \* what the last export request resolved, called
                  \* and answered
    _registry,    \* FeatureManager._registry of FEATURES: "None" or the
                  \* Registry
    _instance,    \* PluginRegistry._instance: "None" or the instance
    instances,    \* the PluginRegistry objects created so far: what each
                  \* holds (capabilities, objects, UI fragments, route
                  \* groups), in the order of registration
    core_plugins, \* core.registry.PluginRegistry._plugins: the dict as a
                  \* Seq of <<name, plugin>> in insertion order
    refresh_plugins,  \* the local variable plugins of a refresh that is
                  \* in progress, reduced to the objects its loop has not
                  \* visited yet; empty when no refresh is running
    before,       \* FeatureManager._features as it was when the refresh
                  \* in progress was called
    threads,      \* the request threads that run an administrative action:
                  \* for each its position in the action and the locals
                  \* of its refresh (loop index, existing_idx)
    pipelines     \* the Pipeline objects build_pipeline has returned, each
                  \* by its _steps, in the order of the calls

\* the plugin runtime and the pipeline under execution
rvars == <<heap, _plugins, _features, enabled_ids, pc, reloads, response, disk>>
pvars == <<_steps, input, content, run_pc>>
\* the state of the other parts of the host
tvars == <<threads, pipelines>>
evars == <<export_response, _instance, instances, core_plugins, refresh_plugins, before,
          threads, pipelines>>
xvars == <<export_response, _instance, instances, _registry, core_plugins,
          refresh_plugins, before, threads, pipelines>>
vars == <<heap, _plugins, _features, enabled_ids, pc, reloads, response, disk,
          _steps, input, content, run_pc, export_response, _registry,
          _instance, instances, core_plugins, refresh_plugins, before,
          threads, pipelines>>

----------------------------------------------------------------------------
(* Bounds of the model *)

\* hot reloads (install / uninstall) after start-up
MaxReloads == 2
\* extensions whose entry file raises in one scan
MaxFailing == 1
\* steps of a pipeline under execution
MaxSteps == 3
\* length of the content a pipeline is run on
MaxInputLen == 2

(* Program constants *)

\* the offset get_sort_key adds to the index of a listed name
PriorityBase == 1000

----------------------------------------------------------------------------
(* Small helpers *)

Range(s) == {s[i] : i \in 1..Len(s)}

\* list.index(x): first position, 0-based
IndexOf(s, x) == (CHOOSE i \in 1..Len(s) : s[i] = x /\ \A j \in 1..(i-1) : s[j] # x) - 1

----------------------------------------------------------------------------
(* Objects *)

\* Feature.__init__: name, handler, state, type, meta. The meta keys the
\* runtime reads are kept as fields; "absent" is a key the dict lacks.
\* owner is not a field of the Python object: it records which extension's
\* load created the object ("core" for the host's own features).
Feature(name, handler, state, feature_type, extension, installed, plugin_id, preinstalled, owner) ==
    [kind |-> "feature", name |-> name, handler |-> handler, state |-> state,
     type |-> feature_type, extension |-> extension, installed |-> installed,
     plugin_id |-> plugin_id, preinstalled |-> preinstalled, owner |-> owner]

\* An object registered in the Registry that is no Feature: the DummyPlugin
\* instance the fixture registers at import. It has get_features but no
\* name, type or handler attribute.
PluginInstance(owner) ==
    [kind |-> "instance", name |-> "", handler |-> "None", state |-> "NONE",
     type |-> "NONE", extension |-> "absent", installed |-> "absent",
     plugin_id |-> "absent", preinstalled |-> "absent", owner |-> owner]

----------------------------------------------------------------------------
(* The extensions on disk.  pdf_export, word_export and editor are the     *)
(* bundled plugins, dummy_plugin is the test fixture; addon and core_addon *)
(* are extensions written to the same contract whose capabilities carry a  *)
(* plugin_id (and preinstalled) key in their meta, which is what the       *)
(* Orchestrator's enablement check reads.                                  *)

\* the directories get_plugin_paths looks for in source mode, in its
\* order: the external (user) root first, the internal root last
SearchRoots == <<"plugins", "docnexus/plugins">>

\* get_plugin_paths(): the search roots that exist
get_plugin_paths(existing) == SelectSeq(SearchRoots, LAMBDA d : d \in existing)

\* plugin_dir.iterdir(): the candidate extensions of a search root
iterdir(plugin_dir) ==
    IF plugin_dir = "plugins" THEN <<"addon", "dummy_plugin">>
    ELSE <<"core_addon", "editor", "pdf_export", "word_export">>

ExtIds == UNION {Range(iterdir(SearchRoots[i])) : i \in 1..Len(SearchRoots)}

\* the extensions some existing search root holds
OnDisk(existing) == UNION {Range(iterdir(d)) : d \in Range(get_plugin_paths(existing))}

\* PLUGIN_METADATA['preinstalled'] of the entry file (False when undeclared)
DeclaredPreinstalled(id) == id \in {"core_addon", "editor", "word_export"}

\* extensions whose entry file may raise when it is executed (a missing
\* import, a malformed file)
MayRaise == {"dummy_plugin", "pdf_export"}

\* the extension directory holds an installer.py
HasInstaller(id) == id \in {"addon", "core_addon", "pdf_export"}

\* PluginState.is_plugin_installed(plugin_id)
is_plugin_installed(store, plugin_id) == plugin_id \in store

\* PluginState.get_installed_plugins()
get_installed_plugins(store) == store

PyBool(b) == IF b THEN "True" ELSE "False"

\* module.get_features() of each entry file
get_features(id, store) ==
    CASE id = "pdf_export" ->
           << Feature("pdf_export", "export_pdf", "EXPERIMENTAL", "EXPORT_HANDLER", "pdf",
                      PyBool("pdf_export" \in get_installed_plugins(store)),
                      "absent", "absent", id) >>
      [] id = "word_export" ->
           << Feature("docx", "export_to_word", "STANDARD", "EXPORT_HANDLER", "absent",
                      "absent", "absent", "absent", id) >>
      [] id = "editor" ->
           << Feature("Doc Editor", "None", "STANDARD", "UI_EXTENSION", "absent",
                      "absent", "absent", "absent", id) >>
      [] id = "dummy_plugin" ->
           << Feature("UPPERCASE_TEST", "uppercase_test", "EXPERIMENTAL", "ALGORITHM", "absent",
                      "absent", "absent", "absent", id) >>
      [] id = "addon" ->
           << Feature("ADDON_ALGO", "addon_algo", "STANDARD", "ALGORITHM", "absent",
                      "True", "addon", "absent", id),
              Feature("pdf", "addon_pdf", "STANDARD", "EXPORT_HANDLER", "absent",
                      "True", "addon", "absent", id) >>
      [] id = "core_addon" ->
           << Feature("CORE_ALGO", "core_algo", "STANDARD", "ALGORITHM", "absent",
                      "True", "core_addon", "True", id) >>
      [] OTHER -> << >>

\* objects the entry file registers itself while it is executed
\* (dummy_plugin: PluginRegistry().register(instance))
module_level_objects(id) ==
    IF id = "dummy_plugin" THEN << PluginInstance(id) >> ELSE << >>

----------------------------------------------------------------------------
(* Registry *)

\* register without the check for presence
register_always_append(plugins, oid) == Append(plugins, oid)

\* PluginRegistry.register: append unless already present
register(plugins, oid) ==
    IF oid \in Range(plugins) THEN plugins ELSE Append(plugins, oid)

RECURSIVE register_all(_, _)
register_all(plugins, oids) ==
    IF oids = << >> THEN plugins
    ELSE register_all(register(plugins, Head(oids)), Tail(oids))

----------------------------------------------------------------------------
(* Loader *)

\* a load that first drops from the Registry what earlier loads of the
\* extension registered
load_single_plugin_replacing(h, plugins, store, name, raises) ==
    IF raises THEN [heap |-> h, plugins |-> plugins]
    ELSE LET objs == module_level_objects(name) \o get_features(name, store)
             oids == [i \in 1..Len(objs) |-> Len(h) + i]
             kept == SelectSeq(plugins, LAMBDA o : h[o].owner # name)
         IN  [heap |-> h \o objs, plugins |-> register_all(kept, oids)]

\* load_single_plugin(name, path): executes the entry file and registers
\* what get_features() returns.  raises: executing the entry file raises;
\* the exception is caught and the Registry is left as it was.
\* The result is the pair of the new heap and the new Registry list.
load_single_plugin(h, plugins, store, name, raises) ==
    IF raises THEN [heap |-> h, plugins |-> plugins]
    ELSE LET objs == module_level_objects(name) \o get_features(name, store)
             oids == [i \in 1..Len(objs) |-> Len(h) + i]
         IN  [heap |-> h \o objs, plugins |-> register_all(plugins, oids)]

\* load_candidates with the try/except of load_single_plugin missing: the
\* exception of a failing entry file ends the scan of the root
RECURSIVE load_candidates_abort(_, _, _, _, _)
load_candidates_abort(h, plugins, store, items, failing) ==
    IF items = << >> \/ Head(items) \in failing THEN [heap |-> h, plugins |-> plugins]
    ELSE LET r == load_single_plugin(h, plugins, store, Head(items), FALSE)
         IN  load_candidates_abort(r.heap, r.plugins, store, Tail(items), failing)

\* the loop of load_plugins_from_path over the candidates of one root
RECURSIVE load_candidates(_, _, _, _, _)
load_candidates(h, plugins, store, items, failing) ==
    IF items = << >> THEN [heap |-> h, plugins |-> plugins]
    ELSE LET r == load_single_plugin(h, plugins, store, Head(items), Head(items) \in failing)
         IN  load_candidates(r.heap, r.plugins, store, Tail(items), failing)

load_plugins_from_path(h, plugins, store, plugin_dir, failing) ==
    load_candidates(h, plugins, store, iterdir(plugin_dir), failing)

\* load_plugins: every search root in order
RECURSIVE load_paths(_, _, _, _, _)
load_paths(h, plugins, store, paths, failing) ==
    IF paths = << >> THEN [heap |-> h, plugins |-> plugins]
    ELSE LET r == load_plugins_from_path(h, plugins, store, Head(paths), failing)
         IN  load_paths(r.heap, r.plugins, store, Tail(paths), failing)

load_plugins(h, plugins, store, existing, failing) ==
    load_paths(h, plugins, store, get_plugin_paths(existing), failing)

----------------------------------------------------------------------------
(* FeatureManager *)

\* getattr(p, 'plugin_id', default): the attribute of the object itself, not
\* the meta key.  Feature.__init__ sets no such attribute and neither does
\* the plugin instance, so the default is what the call returns.
getattr_plugin_id(p, default) == default

\* get_sort_key(p) of refresh
get_sort_key(p, priority_list) ==
    LET p_name == getattr_plugin_id(p, p.name)
    IN  IF p_name \in Range(priority_list)
        THEN IndexOf(priority_list, p_name) + PriorityBase
        ELSE 0

\* plugins.sort(key=get_sort_key): a stable sort.  The keys are 0 and
\* PriorityBase + i for the positions i of the priority list.
RECURSIVE sort_from(_, _, _, _)
sort_from(h, plugins, priority_list, i) ==
    IF i >= Len(priority_list) THEN << >>
    ELSE SelectSeq(plugins, LAMBDA o : get_sort_key(h[o], priority_list) = PriorityBase + i)
         \o sort_from(h, plugins, priority_list, i + 1)

sort_plugins(h, plugins, priority_list) ==
    IF priority_list = << >> THEN plugins
    ELSE SelectSeq(plugins, LAMBDA o : get_sort_key(h[o], priority_list) = 0)
         \o sort_from(h, plugins, priority_list, 0)

\* the duck-typing check of refresh: hasattr name, type and handler
is_duck_feature(p) == p.kind = "feature"

\* state_check without the "not is_preinstalled" condition
state_check_ignoring_preinstalled(p, store) ==
    IF p.plugin_id # "absent"
    THEN PyBool(is_plugin_installed(store, p.plugin_id))
    ELSE p.installed

\* the STATE CHECK of refresh: the value meta['installed'] has after it
state_check(p, store) ==
    IF p.plugin_id # "absent" /\ p.preinstalled # "True"
    THEN PyBool(is_plugin_installed(store, p.plugin_id))
    ELSE p.installed

\* next((i for i, f in enumerate(self._features) if f.name == name), -1),
\* as a 1-based position, 0 when there is none
existing_idx(h, features, name) ==
    IF \E i \in 1..Len(features) : h[features[i]].name = name
    THEN CHOOSE i \in 1..Len(features) :
            /\ h[features[i]].name = name
            /\ \A j \in 1..(i-1) : h[features[j]].name # name
    ELSE 0

\* refresh_step without the lookup by name: every capability is appended
refresh_step_append(h, features, oid, store) ==
    IF is_duck_feature(h[oid])
    THEN [heap |-> [h EXCEPT ![oid].installed = state_check(h[oid], store)],
          features |-> Append(features, oid)]
    ELSE [heap |-> h, features |-> features]

\* one iteration of the loop of refresh over the (sorted) Registry list
refresh_step(h, features, oid, store) ==
    IF is_duck_feature(h[oid])
    THEN LET h2  == [h EXCEPT ![oid].installed = state_check(h[oid], store)]
             idx == existing_idx(h2, features, h2[oid].name)
         IN  [heap |-> h2,
              features |-> IF idx > 0 THEN [features EXCEPT ![idx] = oid]
                           ELSE Append(features, oid)]
    ELSE [heap |-> h, features |-> features]

RECURSIVE refresh_loop(_, _, _, _)
refresh_loop(h, features, todo, store) ==
    IF todo = << >> THEN [heap |-> h, features |-> features]
    ELSE LET r == refresh_step(h, features, Head(todo), store)
         IN  refresh_loop(r.heap, r.features, Tail(todo), store)

\* FeatureManager.refresh(priority_list) with a registry attached: the new
\* heap, the Registry list (sorted in place: get_all_plugins returns the
\* list itself) and the new active set
refresh(h, plugins, store, priority_list) ==
    LET sorted == sort_plugins(h, plugins, priority_list)
        r      == refresh_loop(h, << >>, sorted, store)
    IN  [heap |-> r.heap, plugins |-> sorted, features |-> r.features]

\* refresh without the clearing of the active set it starts with
refresh_manager_additive(h, registry, plugins, features, store, priority_list) ==
    IF registry = "None"
    THEN [heap |-> h, plugins |-> plugins, features |-> features]
    ELSE LET sorted == sort_plugins(h, plugins, priority_list)
             r      == refresh_loop(h, features, sorted, store)
         IN  [heap |-> r.heap, plugins |-> sorted, features |-> r.features]

\* FeatureManager.refresh(priority_list) of a manager whose _registry is
\* registry and whose active set is features: the active set is cleared,
\* and without a registry that is all
refresh_manager(h, registry, plugins, features, store, priority_list) ==
    IF registry = "None"
    THEN [heap |-> h, plugins |-> plugins, features |-> << >>]
    ELSE refresh(h, plugins, store, priority_list)

\* FeatureManager.is_feature_installed: meta.get('installed', True)
is_feature_installed(p) == p.installed # "False"

\* export_match without the fallback to the name
export_match_extension_only(p, format_ext) == p.extension = format_ext

\* does the capability match the format token (get_export_handler)
export_match(p, format_ext) ==
    \/ p.extension = format_ext
    \/ p.name = format_ext
    \/ p.name = format_ext \o "_export"

\* FeatureManager.get_export_handler: the handler, or "None"
RECURSIVE export_scan(_, _, _)
export_scan(h, features, format_ext) ==
    IF features = << >> THEN "None"
    ELSE LET f == h[Head(features)]
         IN  IF f.type = "EXPORT_HANDLER" /\ export_match(f, format_ext)
             THEN IF is_feature_installed(f) THEN f.handler ELSE "None"
             ELSE export_scan(h, Tail(features), format_ext)

\* get_export_handler that keeps searching past a match that is not installed
RECURSIVE export_scan_continue(_, _, _)
export_scan_continue(h, features, format_ext) ==
    IF features = << >> THEN "None"
    ELSE LET f == h[Head(features)]
         IN  IF f.type = "EXPORT_HANDLER" /\ export_match(f, format_ext) /\ is_feature_installed(f)
             THEN f.handler
             ELSE export_scan_continue(h, Tail(features), format_ext)

get_export_handler(h, features, format_ext) == export_scan(h, features, format_ext)

\* FeatureManager.build_pipeline: the steps of the Pipeline it returns
RECURSIVE pipeline_steps(_, _, _)
pipeline_steps(h, features, enable_experimental) ==
    IF features = << >> THEN << >>
    ELSE LET f    == h[Head(features)]
             rest == pipeline_steps(h, Tail(features), enable_experimental)
         IN  IF f.type # "ALGORITHM" THEN rest
             ELSE IF ~is_feature_installed(f) THEN rest
             ELSE IF f.state = "STANDARD" THEN <<f.handler>> \o rest
             ELSE IF enable_experimental /\ f.state = "EXPERIMENTAL" THEN <<f.handler>> \o rest
             ELSE rest

\* build_pipeline without the is_feature_installed check
RECURSIVE pipeline_steps_unchecked(_, _, _)
pipeline_steps_unchecked(h, features, enable_experimental) ==
    IF features = << >> THEN << >>
    ELSE LET f    == h[Head(features)]
             rest == pipeline_steps_unchecked(h, Tail(features), enable_experimental)
         IN  IF f.type # "ALGORITHM" THEN rest
             ELSE IF f.state = "STANDARD" THEN <<f.handler>> \o rest
             ELSE IF enable_experimental /\ f.state = "EXPERIMENTAL" THEN <<f.handler>> \o rest
             ELSE rest

build_pipeline(h, features, enable_experimental) ==
    pipeline_steps(h, features, enable_experimental)

----------------------------------------------------------------------------
(* The host (app.py) *)

\* the core features app.py registers with FEATURES.register
CoreFeature(name, handler, state) ==
    Feature(name, handler, state, "ALGORITHM", "absent", "absent", "absent", "absent", "core")

core_features ==
    << CoreFeature("STD_NORMALIZE", "normalize_headings", "STANDARD"),
       CoreFeature("STD_SANITIZE_ATTR", "sanitize_attr_tokens", "STANDARD"),
       CoreFeature("STD_TOC", "build_toc", "STANDARD"),
       CoreFeature("STD_ANNOTATE", "annotate_blocks", "STANDARD"),
       CoreFeature("SMART_TABLES", "convert_ascii_tables_to_markdown", "EXPERIMENTAL"),
       CoreFeature("SMART_SIP", "convert_sip_signaling_to_mermaid", "EXPERIMENTAL"),
       CoreFeature("SMART_TOPOLOGY", "convert_topology_to_mermaid", "EXPERIMENTAL") >>

\* identifiers an administrative request may name: the extensions on disk
\* and one that no search root holds
RequestIds == ExtIds \cup {"missing"}

\* what the durable Enablement Store may hold when the process starts
InitialStores == (SUBSET {"addon", "pdf_export"}) \cup {{"core_addon", "word_export"}}

\* priority orders handed to refresh
PriorityLists ==
    { << >>, <<"editor">>, <<"pdf_export">> }

\* the outcome of a request, as the routes report it (code is the HTTP
\* status; a request the route rejects with 400 or 404 before it touches
\* anything is recorded by its status alone); raised records that the
\* entry file raised in the hot reload, failing the extensions that raised
\* in the start-up scan, priority the order the last refresh was given
Response(op, id, code, raised, failing) ==
    [op |-> op, id |-> id, code |-> code, raised |-> raised, failing |-> failing,
     priority |-> << >>]

\* no export request has been made
NoExport ==
    [format |-> "", json |-> FALSE, handler |-> "unresolved", invoked |-> "None",
     status |-> 0, code |-> ""]

\* the core registry is empty, no refresh is in progress, no administrative
\* action is running and no pipeline has been built
OtherIdle ==
    /\ threads = << >>
    /\ pipelines = << >>
    /\ core_plugins = << >>
    /\ refresh_plugins = << >>
    /\ before = << >>

\* the parts of the host outside the plugin runtime and the pipeline are idle
ExtraIdle ==
    /\ OtherIdle
    /\ export_response = NoExport
    /\ _registry = "None"
    /\ _instance = "None"
    /\ instances = << >>

Init ==
    /\ ExtraIdle
    /\ heap = << >>
    /\ _plugins = << >>
    /\ _features = << >>
    /\ enabled_ids \in InitialStores
    /\ pc = "boot"
    /\ reloads = 0
    /\ response = Response("none", "", 0, FALSE, {})
    /\ disk \in {Range(SearchRoots), {"docnexus/plugins"}}
    /\ _steps = << >>
    /\ input = << >>
    /\ content = << >>
    /\ run_pc = 0

\* "Initialize Plugins": load_plugins(registry), FeatureManager(registry), refresh()
StartupLoad ==
    /\ pc = "boot"
    /\ \E failing \in SUBSET (MayRaise \cap OnDisk(disk)) :
         /\ Cardinality(failing) <= MaxFailing
         /\ LET l == load_plugins(heap, _plugins, enabled_ids, disk, failing)
                r == refresh(l.heap, l.plugins, enabled_ids, << >>)
            IN  /\ heap' = r.heap
                /\ _plugins' = r.plugins
                /\ _features' = r.features
         /\ response' = Response("load_plugins", "", 0, failing # {}, failing)
    /\ pc' = "loaded"
    /\ _registry' = "PluginRegistry"
    /\ UNCHANGED <<enabled_ids, reloads, disk>>
    /\ UNCHANGED pvars
    /\ UNCHANGED evars

\* FEATURES = FeatureManager() and the FEATURES.register calls
RegisterCore ==
    /\ pc = "loaded"
    /\ heap' = heap \o core_features
    /\ _features' = [i \in 1..Len(core_features) |-> Len(heap) + i]
    /\ pc' = "core"
    /\ _registry' = "None"
    /\ UNCHANGED <<_plugins, enabled_ids, reloads, response, disk>>
    /\ UNCHANGED pvars
    /\ UNCHANGED evars

\* FEATURES._registry = PluginRegistry(); FEATURES.refresh()
StartupRefresh ==
    /\ pc = "core"
    /\ LET r == refresh(heap, _plugins, enabled_ids, << >>)
       IN  /\ heap' = r.heap
           /\ _plugins' = r.plugins
           /\ _features' = r.features
    /\ pc' = "serving"
    /\ _registry' = "PluginRegistry"
    /\ UNCHANGED <<enabled_ids, reloads, response, disk>>
    /\ UNCHANGED pvars
    /\ UNCHANGED evars

\* the hot reload of install_plugin and uninstall_plugin:
\* load_single_plugin(plugin_id, ...) then FEATURES.refresh()
hot_reload(h, plugins, store, plugin_id, raises) ==
    LET l == load_single_plugin(h, plugins, store, plugin_id, raises)
    IN  refresh(l.heap, l.plugins, store, << >>)

\* POST /api/plugins/install/<plugin_id>.  installed_ok: installer.install()
\* returned success (it returns failure, after creating the marker, when
\* the dependency check fails)
install_plugin(plugin_id, installed_ok, raises) ==
    /\ pc = "serving"
    /\ IF plugin_id \notin OnDisk(disk)
       THEN /\ response' = Response("rejected", "", 404, FALSE, {})
            /\ UNCHANGED <<heap, _plugins, _features, enabled_ids, reloads>>
       ELSE IF ~HasInstaller(plugin_id)
       THEN /\ response' = Response("rejected", "", 400, FALSE, {})
            /\ UNCHANGED <<heap, _plugins, _features, enabled_ids, reloads>>
       ELSE IF ~installed_ok
       THEN /\ enabled_ids' = enabled_ids \cup {plugin_id}
            /\ response' = Response("install", plugin_id, 500, FALSE, {})
            /\ UNCHANGED <<heap, _plugins, _features, reloads>>
       ELSE /\ reloads < MaxReloads
            /\ enabled_ids' = enabled_ids \cup {plugin_id}
            /\ LET r == hot_reload(heap, _plugins, enabled_ids', plugin_id, raises)
               IN  /\ heap' = r.heap
                   /\ _plugins' = r.plugins
                   /\ _features' = r.features
            /\ reloads' = reloads + 1
            /\ response' = Response("install", plugin_id, 200, raises, {})
    /\ UNCHANGED <<pc, disk>>

\* POST /api/plugins/uninstall/<plugin_id>
uninstall_plugin(plugin_id, raises) ==
    /\ pc = "serving"
    /\ IF plugin_id \notin OnDisk(disk)
       THEN /\ response' = Response("rejected", "", 404, FALSE, {})
            /\ UNCHANGED <<heap, _plugins, _features, enabled_ids, reloads>>
       ELSE IF plugin_id \notin enabled_ids
       THEN /\ response' = Response("rejected", "", 400, FALSE, {})
            /\ UNCHANGED <<heap, _plugins, _features, enabled_ids, reloads>>
       ELSE /\ reloads < MaxReloads
            /\ enabled_ids' = enabled_ids \ {plugin_id}
            /\ LET r == hot_reload(heap, _plugins, enabled_ids', plugin_id, raises)
               IN  /\ heap' = r.heap
                   /\ _plugins' = r.plugins
                   /\ _features' = r.features
            /\ reloads' = reloads + 1
            /\ response' = Response("uninstall", plugin_id, 200, raises, {})
    /\ UNCHANGED <<pc, disk>>

\* set_priority: FEATURES.refresh(priority_list)
Reconcile(priority_list) ==
    /\ pc = "serving"
    /\ LET r == refresh(heap, _plugins, enabled_ids, priority_list)
       IN  /\ heap' = r.heap
           /\ _plugins' = r.plugins
           /\ _features' = r.features
    /\ response' = [Response("refresh", "", 0, FALSE, {}) EXCEPT !.priority = priority_list]
    /\ UNCHANGED <<enabled_ids, pc, reloads, disk>>

\* whether the entry file raises in a hot reload
Raises(id) == IF id \in MayRaise THEN BOOLEAN ELSE {FALSE}

Install == UNCHANGED pvars /\ UNCHANGED xvars /\ \E id \in RequestIds, ok \in BOOLEAN : \E raises \in Raises(id) : install_plugin(id, ok, raises)

Uninstall == UNCHANGED pvars /\ UNCHANGED xvars /\ \E id \in RequestIds : \E raises \in Raises(id) : uninstall_plugin(id, raises)

SetPriority == UNCHANGED pvars /\ UNCHANGED xvars /\ \E pl \in PriorityLists : Reconcile(pl)

Next ==
    \/ StartupLoad
    \/ RegisterCore
    \/ StartupRefresh
    \/ Install
    \/ Uninstall
    \/ SetPriority

Spec == Init /\ [][Next]_vars

----------------------------------------------------------------------------
(* Pipeline *)

\* Content is a sequence of characters.  A step is one of four handlers:
\* identity returns its argument, uppercase upper-cases it, append_b adds a
\* character at the end, raises throws.
Chars == {"a", "b"}

Handlers == {"identity", "raises", "uppercase", "append_b"}

Upper(c) == IF c = "a" THEN "A" ELSE IF c = "b" THEN "B" ELSE c

\* step(content): whether the call raises, and the value it returns
call(step, c) ==
    CASE step = "identity"  -> [raised |-> FALSE, value |-> c]
      [] step = "uppercase" -> [raised |-> FALSE, value |-> [i \in 1..Len(c) |-> Upper(c[i])]]
      [] step = "append_b"  -> [raised |-> FALSE, value |-> Append(c, "b")]
      [] OTHER              -> [raised |-> TRUE,  value |-> << >>]

\* run_iteration without the try/except: the exception of the step leaves run
run_iteration_propagating(step, c) ==
    LET r == call(step, c)
    IN  [propagated |-> r.raised, content |-> IF r.raised THEN c ELSE r.value]

\* one iteration of the loop of Pipeline.run: try: content = step(content)
\* except Exception: log.  propagated: an exception leaves run; content:
\* the value of the local variable after the iteration.
run_iteration(step, c) ==
    LET r == call(step, c)
    IN  [propagated |-> FALSE, content |-> IF r.raised THEN c ELSE r.value]

Inputs == UNION {[1..n -> Chars] : n \in 0..MaxInputLen}

InitPipeline ==
    /\ ExtraIdle
    /\ heap = << >>
    /\ _plugins = << >>
    /\ _features = << >>
    /\ enabled_ids = {}
    /\ pc = "boot"
    /\ reloads = 0
    /\ response = Response("none", "", 0, FALSE, {})
    /\ disk = {}
    /\ _steps = << >>
    /\ input = << >>
    /\ content = << >>
    /\ run_pc = 0

\* Pipeline.add_step
add_step ==
    /\ run_pc = 0
    /\ Len(_steps) < MaxSteps
    /\ \E h \in Handlers : _steps' = Append(_steps, h)
    /\ UNCHANGED <<input, content, run_pc>>
    /\ UNCHANGED rvars
    /\ UNCHANGED xvars

\* Pipeline.run(content) is called
run_call ==
    /\ run_pc = 0
    /\ \E c \in Inputs : input' = c /\ content' = c
    /\ run_pc' = 1
    /\ UNCHANGED _steps
    /\ UNCHANGED rvars
    /\ UNCHANGED xvars

\* the loop body of Pipeline.run for the step at run_pc
run_loop ==
    /\ run_pc \in 1..Len(_steps)
    /\ LET r == run_iteration(_steps[run_pc], content)
       IN  /\ content' = r.content
           /\ run_pc' = IF r.propagated THEN -1 ELSE run_pc + 1
    /\ UNCHANGED <<_steps, input>>
    /\ UNCHANGED rvars
    /\ UNCHANGED xvars

NextPipeline == add_step \/ run_call \/ run_loop

SpecPipeline == InitPipeline /\ [][NextPipeline]_vars

----------------------------------------------------------------------------
(* Properties *)

\* format tokens of export requests
Formats == {"pdf", "docx", "pdf_export", "html"}

\* the capability at position i of the active set
Active(i) == heap[_features[i]]

\* positions of the active EXPORT_HANDLER capabilities that match a token
Matching(format_ext) ==
    {i \in 1..Len(_features) :
        Active(i).type = "EXPORT_HANDLER" /\ export_match(Active(i), format_ext)}

\* C1: a capability of an extension that is not preinstalled and whose
\* identifier is not in the Enablement Store is never a step of a built
\* pipeline and its handler is never returned by get_export_handler.
C1_EnablementGating ==
    \A i \in 1..Len(_features) :
        (/\ Active(i).owner \in ExtIds
         /\ ~DeclaredPreinstalled(Active(i).owner)
         /\ Active(i).owner \notin enabled_ids)
        => /\ \A exp \in BOOLEAN :
                Active(i).handler \notin Range(build_pipeline(heap, _features, exp))
           /\ \A fmt \in Formats :
                get_export_handler(heap, _features, fmt) # Active(i).handler

\* C2: when a hot reload registers a capability whose name is already
\* active, the reconcile that follows leaves exactly one active entry of
\* that name, which is the newly registered object, at the position of the
\* earlier one, and every other position keeps its entry.
C2_DedupByName ==
    [][ pc = "serving" =>
        \A o \in (Len(heap) + 1)..Len(heap') : \A i \in 1..Len(_features) :
            (heap'[o].kind = "feature" /\ heap[_features[i]].name = heap'[o].name)
            => /\ _features'[i] = o
               /\ Cardinality({j \in 1..Len(_features') :
                                 heap'[_features'[j]].name = heap'[o].name}) = 1
               /\ Len(_features') = Len(_features)
               /\ \A j \in 1..Len(_features) :
                    \/ _features'[j] = _features[j]
                    \/ /\ _features'[j] > Len(heap)
                       /\ heap'[_features'[j]].name = heap[_features[j]].name
      ]_vars

\* a hot reload has replaced an active capability by a later registration
\* of the same name
C2_Witness ==
    /\ response.op \in {"install", "uninstall"}
    /\ response.code = 200
    /\ ~response.raised
    /\ \E i \in 1..Len(_features) : \E k \in 1..Len(_plugins) :
         /\ _plugins[k] < _features[i]
         /\ heap[_plugins[k]].name = Active(i).name
         /\ i < Len(_features)

\* the Registry holds an object that extension e's load created for the
\* capability f of its get_features()
Registered(e, f) ==
    \E k \in 1..Len(_plugins) :
        /\ heap[_plugins[k]].kind = "feature"
        /\ heap[_plugins[k]].owner = e
        /\ heap[_plugins[k]].name = f.name
        /\ heap[_plugins[k]].handler = f.handler
        /\ heap[_plugins[k]].type = f.type

\* C3: after the start-up scan the host goes on with its start-up, and
\* every extension of an existing search root whose entry file did not
\* raise has every capability it returns registered in the Registry,
\* whether it was scanned before or after an extension that raised.
C3_LoadIsolation ==
    response.op = "load_plugins" =>
        /\ pc \in {"loaded", "core", "serving"}
        /\ \A e \in OnDisk(disk) \ response.failing :
             LET fs == get_features(e, enabled_ids)
             IN  \A k \in 1..Len(fs) : Registered(e, fs[k])

\* the scan in which pdf_export raised has registered editor, scanned
\* before it, and word_export, scanned after it
C3_Witness ==
    /\ response.op = "load_plugins"
    /\ response.failing = {"pdf_export"}
    /\ pc = "serving"
    /\ ~ \E k \in 1..Len(_plugins) : heap[_plugins[k]].owner = "pdf_export"
    /\ \E k \in 1..Len(_plugins) : heap[_plugins[k]].name = "Doc Editor"
    /\ \E k \in 1..Len(_plugins) : heap[_plugins[k]].name = "docx"

owner_sort_key(p, priority_list) ==
    IF p.owner \in Range(priority_list)
    THEN IndexOf(priority_list, p.owner) + PriorityBase
    ELSE 0

RECURSIVE owner_groups(_, _, _, _)
owner_groups(h, plugins, priority_list, i) ==
    IF i >= Len(priority_list) THEN << >>
    ELSE SelectSeq(plugins, LAMBDA o : owner_sort_key(h[o], priority_list) = PriorityBase + i)
         \o owner_groups(h, plugins, priority_list, i + 1)

owner_order(h, plugins, priority_list) ==
    SelectSeq(plugins, LAMBDA o : owner_sort_key(h[o], priority_list) = 0)
    \o owner_groups(h, plugins, priority_list, 0)

\* C5: refresh(priority_list) processes the Registry's objects in this
\* order: first those whose owning extension is not in the priority list,
\* in their original relative order, then those whose owning extension is
\* listed, grouped in the order of the list and in original relative order
\* within one extension.
C5_PriorityOrdering ==
    [][ \A pl \in PriorityLists :
          Reconcile(pl) => _plugins' = owner_order(heap, _plugins, pl) ]_vars

\* the fold the pipeline contract describes: a step that raises is the
\* identity
RECURSIVE fold_skipping(_, _)
fold_skipping(steps, c) ==
    IF steps = << >> THEN c
    ELSE LET r == call(Head(steps), c)
         IN  fold_skipping(Tail(steps), IF r.raised THEN c ELSE r.value)

\* C6: no exception of a step leaves Pipeline.run, and the content after
\* the steps run so far (when run has returned: the result) is the fold of
\* the input through those steps in insertion order in which a step that
\* raises leaves the content as it was.
C6_PipelineFaultTolerance ==
    /\ run_pc # -1
    /\ run_pc >= 1 => content = fold_skipping(SubSeq(_steps, 1, run_pc - 1), input)

\* run has returned "A" for the steps [identity, raises, uppercase] and
\* the input "a"
C6_Witness ==
    /\ _steps = <<"identity", "raises", "uppercase">>
    /\ input = <<"a">>
    /\ run_pc = Len(_steps) + 1
    /\ content = <<"A">>

\* the active capabilities build_pipeline(include_experimental) takes
Qualifies(p, include_experimental) ==
    /\ p.type = "ALGORITHM"
    /\ is_feature_installed(p)
    /\ \/ p.state = "STANDARD"
       \/ p.state = "EXPERIMENTAL" /\ include_experimental

\* C7: for both values of include_experimental the steps of the built
\* pipeline are the handlers of the active capabilities of type ALGORITHM
\* with effective installed true whose state is STANDARD, or EXPERIMENTAL
\* when include_experimental holds, in the order of the active set; a
\* capability of another type or one that is not installed is no step.
C7_BuildPipelineFilter ==
    \A exp \in BOOLEAN :
        LET taken == SelectSeq(_features, LAMBDA o : Qualifies(heap[o], exp))
            built == build_pipeline(heap, _features, exp)
        IN  /\ built = [k \in 1..Len(taken) |-> heap[taken[k]].handler]
            /\ \A i \in 1..Len(_features) :
                 (Active(i).type # "ALGORITHM" \/ ~is_feature_installed(Active(i)))
                 => Active(i).handler \notin Range(built)

\* the active set holds an ALGORITHM that is not installed, a UI_EXTENSION,
\* an EXPORT_HANDLER and an EXPERIMENTAL ALGORITHM, and the standard
\* pipeline has a step
C7_Witness ==
    /\ pc = "serving"
    /\ \E i \in 1..Len(_features) :
         Active(i).type = "ALGORITHM" /\ ~is_feature_installed(Active(i))
    /\ \E i \in 1..Len(_features) : Active(i).type = "UI_EXTENSION"
    /\ \E i \in 1..Len(_features) : Active(i).type = "EXPORT_HANDLER"
    /\ build_pipeline(heap, _features, FALSE) # << >>
    /\ Len(build_pipeline(heap, _features, TRUE)) > Len(build_pipeline(heap, _features, FALSE))

\* the position of the first active EXPORT_HANDLER capability that matches
FirstMatch(format_ext) ==
    CHOOSE i \in Matching(format_ext) : \A j \in Matching(format_ext) : i <= j

\* C10: when the first active EXPORT_HANDLER capability that matches the
\* format token is not installed, get_export_handler returns None, whatever
\* matches later in the active set.
C10_ResolveFailsClosed ==
    \A fmt \in Formats :
        (Matching(fmt) # {} /\ ~is_feature_installed(Active(FirstMatch(fmt))))
        => get_export_handler(heap, _features, fmt) = "None"

\* the first match of a token is not installed and a later match of the
\* same token is
C10_Witness ==
    \E fmt \in Formats :
        /\ Matching(fmt) # {}
        /\ ~is_feature_installed(Active(FirstMatch(fmt)))
        /\ \E j \in Matching(fmt) : j > FirstMatch(fmt) /\ is_feature_installed(Active(j))
        /\ get_export_handler(heap, _features, fmt) = "None"

\* the format an EXPORT_HANDLER capability serves: its extension tag, or
\* its name when it has none
ExportFormat(p) == IF p.extension # "absent" THEN p.extension ELSE p.name

\* the EXPORT_HANDLER capabilities extension id has in the Registry
ExportCaps(id) ==
    {o \in Range(_plugins) : heap[o].owner = id /\ heap[o].type = "EXPORT_HANDLER"}

\* no capability of another extension matches the format token
SoleClaimant(id, format_ext) ==
    \A o \in Range(_plugins) :
        (heap[o].type = "EXPORT_HANDLER" /\ export_match(heap[o], format_ext))
        => heap[o].owner = id

\* C8: when an extension with an EXPORT_HANDLER capability is discovered
\* but not enabled and get_export_handler returns None for its format (which
\* no other extension claims), an install the route answers with success
\* makes get_export_handler return the extension's handler for that format.
C8_InstallHotReload ==
    [][ \A id \in ExtIds : \A o \in ExportCaps(id) :
          ( /\ id \notin enabled_ids
            /\ SoleClaimant(id, ExportFormat(heap[o]))
            /\ get_export_handler(heap, _features, ExportFormat(heap[o])) = "None"
            /\ reloads' = reloads + 1
            /\ response'.op = "install" /\ response'.id = id /\ response'.code = 200 )
          => get_export_handler(heap', _features', ExportFormat(heap[o])) = heap[o].handler
      ]_vars

\* C9: after an uninstall the route answers with success, of an extension
\* that is not preinstalled and has an EXPORT_HANDLER capability whose
\* format no other extension claims, get_export_handler returns None for
\* that format.
C9_UninstallHotReload ==
    (/\ response.op = "uninstall" /\ response.code = 200
     /\ ~DeclaredPreinstalled(response.id))
    => \A o \in ExportCaps(response.id) :
         SoleClaimant(response.id, ExportFormat(heap[o]))
         => get_export_handler(heap, _features, ExportFormat(heap[o])) = "None"

----------------------------------------------------------------------------
(* Export requests (app.py, handle_export_request) *)

\* capabilities of an active set under resolution
MaxActive == 2

FeatureTypes == {"ALGORITHM", "UI_EXTENSION", "EXPORT_HANDLER"}

ExportNames == {"pdf", "pdf_export", "docx"}

\* the handler of the capability at each position, so that the handler
\* tells which capability was resolved
PositionHandlers == <<"h1", "h2", "h3", "h4">>

\* capabilities as an extension may declare them
Shapes ==
    {Feature(n, "h", "STANDARD", t, e, inst, "absent", "absent", "any") :
        n \in ExportNames, t \in FeatureTypes, e \in {"absent", "pdf"},
        inst \in {"True", "False", "absent"}}

\* the outcome of calling an export handler: bytes, nothing, an exception
HandlerOutcomes == {"data", "empty", "raises"}

\* an active set as refresh leaves it: no two capabilities of one name
InitExport ==
    /\ \E n \in 0..MaxActive : \E f \in [1..n -> Shapes] :
         /\ \A i, j \in 1..n : f[i].name = f[j].name => i = j
         /\ heap = [i \in 1..n |-> [f[i] EXCEPT !.handler = PositionHandlers[i]]]
         /\ _features = [i \in 1..n |-> i]
    /\ _plugins = _features
    /\ enabled_ids = {}
    /\ pc = "serving"
    /\ reloads = 0
    /\ response = Response("none", "", 0, FALSE, {})
    /\ disk = {}
    /\ _steps = << >>
    /\ input = << >>
    /\ content = << >>
    /\ run_pc = 0
    /\ export_response = NoExport
    /\ _registry = "PluginRegistry"
    /\ _instance = "None"
    /\ instances = << >>
    /\ OtherIdle

\* handle_export_request without the "if not handler" answer: the handler
\* is called whatever was resolved, and calling None raises
handle_export_request_unchecked(format_ext, has_json, outcome) ==
    export_response' =
        IF ~has_json
        THEN [format |-> format_ext, json |-> FALSE, handler |-> "unresolved",
              invoked |-> "None", status |-> 500, code |-> ""]
        ELSE LET handler == get_export_handler(heap, _features, format_ext)
             IN  [format |-> format_ext, json |-> TRUE, handler |-> handler,
                  invoked |-> handler,
                  status |-> IF handler # "None" /\ outcome = "data" THEN 200 ELSE 500,
                  code |-> ""]

\* POST /api/export/<format_ext>.  has_json: the request carries a JSON
\* body (without one, reading it raises and the route answers 500 before it
\* resolves anything); outcome: what the resolved handler does when called
handle_export_request(format_ext, has_json, outcome) ==
    export_response' =
        IF ~has_json
        THEN [format |-> format_ext, json |-> FALSE, handler |-> "unresolved",
              invoked |-> "None", status |-> 500, code |-> ""]
        ELSE LET handler == get_export_handler(heap, _features, format_ext)
             IN  IF handler = "None"
                 THEN [format |-> format_ext, json |-> TRUE, handler |-> "None",
                       invoked |-> "None", status |-> 404, code |-> "MISSING_PLUGIN"]
                 ELSE [format |-> format_ext, json |-> TRUE, handler |-> handler,
                       invoked |-> handler,
                       status |-> IF outcome = "data" THEN 200 ELSE 500,
                       code |-> ""]

Export ==
    /\ pc = "serving"
    /\ \E fmt \in Formats, has_json \in BOOLEAN, outcome \in HandlerOutcomes :
         handle_export_request(fmt, has_json, outcome)
    /\ UNCHANGED rvars
    /\ UNCHANGED pvars
    /\ UNCHANGED <<_registry, _instance, instances, core_plugins, refresh_plugins, before>>
    /\ UNCHANGED tvars

NextExport == Export

SpecExport == InitExport /\ [][NextExport]_vars

\* the match rule as the contract states it
ClaimsToken(p, format_ext) ==
    /\ p.type = "EXPORT_HANDLER"
    /\ \/ p.extension = format_ext
       \/ p.name \in {format_ext, format_ext \o "_export"}

\* the positions of the active set whose capability claims the token
Claimants(format_ext) == {i \in 1..Len(_features) : ClaimsToken(Active(i), format_ext)}

\* the first of them
FirstClaimant(format_ext) ==
    CHOOSE i \in Claimants(format_ext) : \A j \in Claimants(format_ext) : i <= j

\* C11: for every active set and format token get_export_handler returns
\* the handler of the first active capability of type EXPORT_HANDLER whose
\* extension tag equals the token or whose name is the token or the token
\* followed by "_export", when that capability is installed, and None
\* otherwise; the handler of an ALGORITHM or UI_EXTENSION capability is
\* never returned; an export request resolves to that same result.
C11_ExportMatchRule ==
    /\ \A fmt \in Formats :
         LET result == get_export_handler(heap, _features, fmt)
         IN  /\ result = IF Claimants(fmt) # {}
                            /\ is_feature_installed(Active(FirstClaimant(fmt)))
                         THEN Active(FirstClaimant(fmt)).handler
                         ELSE "None"
             /\ \A i \in 1..Len(_features) :
                  Active(i).type # "EXPORT_HANDLER" => result # Active(i).handler
    /\ export_response.json =>
         export_response.handler = get_export_handler(heap, _features, export_response.format)

\* an export request for pdf has resolved the second capability, matched by
\* the name pdf_export, past an ALGORITHM tagged with the extension pdf
C11_Witness ==
    /\ export_response.json
    /\ export_response.format = "pdf"
    /\ export_response.handler = "h2"
    /\ Len(_features) = 2
    /\ Active(1).type = "ALGORITHM" /\ Active(1).extension = "pdf"
    /\ Active(2).name = "pdf_export" /\ Active(2).extension = "absent"

\* C12: an export request whose resolution finds no match, or a first
\* match that is not installed, gets None from get_export_handler, answers
\* 404 with code MISSING_PLUGIN and calls no handler.
C12_ResolutionMiss ==
    (/\ export_response.json
     /\ \/ Claimants(export_response.format) = {}
        \/ ~is_feature_installed(Active(FirstClaimant(export_response.format))))
    => /\ export_response.handler = "None"
       /\ export_response.status = 404
       /\ export_response.code = "MISSING_PLUGIN"
       /\ export_response.invoked = "None"

\* an export request was answered 404 because the capability that matches
\* is not installed
C12_Witness ==
    /\ export_response.status = 404
    /\ export_response.format = "pdf"
    /\ Claimants("pdf") # {}
    /\ ~is_feature_installed(Active(FirstClaimant("pdf")))

----------------------------------------------------------------------------
(* Properties of the host after start-up *)

\* the handlers of the STANDARD core features, in registration order
CoreStandardHandlers ==
    LET std == SelectSeq(core_features, LAMBDA f : f.state = "STANDARD")
    IN  [k \in 1..Len(std) |-> std[k].handler]

\* C13: once the host serves requests, the STANDARD core features it
\* registered are the first steps of build_pipeline(False), in registration
\* order, ahead of the steps plugins contribute.
C13_StandardAlwaysRuns ==
    pc = "serving" =>
        LET built == build_pipeline(heap, _features, FALSE)
        IN  /\ Len(built) >= Len(CoreStandardHandlers)
            /\ SubSeq(built, 1, Len(CoreStandardHandlers)) = CoreStandardHandlers

----------------------------------------------------------------------------
(* Rendering (app.py, render_document_from_file; core/renderer.py) *)

\* one iteration of the loop of run_pipeline: out = fn(out), with nothing
\* around it that catches.  propagated: the exception of the step leaves
\* run_pipeline and the render
run_pipeline_iteration(fn, out) ==
    LET r == call(fn, out)
    IN  [propagated |-> r.raised, content |-> IF r.raised THEN out ELSE r.value]

\* render_document_from_file reaches run_pipeline(md_text, pipeline) with
\* the pipeline build_pipeline returned
render_call ==
    /\ run_pc = 0
    /\ \E c \in Inputs : input' = c /\ content' = c
    /\ run_pc' = 1
    /\ UNCHANGED _steps
    /\ UNCHANGED rvars
    /\ UNCHANGED xvars

\* the loop body of run_pipeline for the step at run_pc
render_loop ==
    /\ run_pc \in 1..Len(_steps)
    /\ LET r == run_pipeline_iteration(_steps[run_pc], content)
       IN  /\ content' = r.content
           /\ run_pc' = IF r.propagated THEN -1 ELSE run_pc + 1
    /\ UNCHANGED <<_steps, input>>
    /\ UNCHANGED rvars
    /\ UNCHANGED xvars

NextRender == add_step \/ render_call \/ render_loop

SpecRender == InitPipeline /\ [][NextRender]_vars

\* C14: in a render the exception of a pipeline step does not fail the
\* request: the content passes through the step unchanged and the steps
\* after it still run, so the text handed to the baseline rendering is the
\* fold of the input through the steps with a raising step as identity.
C14_RenderFaultTolerance ==
    /\ run_pc # -1
    /\ run_pc >= 1 => content = fold_skipping(SubSeq(_steps, 1, run_pc - 1), input)

----------------------------------------------------------------------------
(* The Registry and the FeatureManager on their own (features/registry.py) *)

\* objects created in one run
MaxObjects == 3

\* an object a caller may hand to register: a capability named A or B, or
\* an object that is no capability.  Its handler tells the objects apart.
NewObjects(oid) ==
    { Feature("A", PositionHandlers[oid], "STANDARD", "ALGORITHM", "absent",
              "absent", "absent", "absent", "any"),
      Feature("B", PositionHandlers[oid], "STANDARD", "ALGORITHM", "absent",
              "absent", "absent", "absent", "any"),
      PluginInstance("any") }

\* PluginRegistry() and FeatureManager() just constructed
InitManager ==
    /\ heap = << >>
    /\ _plugins = << >>
    /\ _features = << >>
    /\ _registry = "None"
    /\ enabled_ids = {}
    /\ pc = "boot"
    /\ reloads = 0
    /\ response = Response("none", "", 0, FALSE, {})
    /\ disk = {}
    /\ _steps = << >>
    /\ input = << >>
    /\ content = << >>
    /\ run_pc = 0
    /\ export_response = NoExport
    /\ _instance = "None"
    /\ instances = << >>
    /\ OtherIdle

\* registry.register(obj) with an object created for the call
registry_register_new ==
    /\ Len(heap) < MaxObjects
    /\ \E obj \in NewObjects(Len(heap) + 1) :
         /\ heap' = Append(heap, obj)
         /\ _plugins' = register(_plugins, Len(heap) + 1)
         /\ response' = Response("register", Len(heap) + 1, 0, FALSE, {})
    /\ UNCHANGED <<_features, _registry, enabled_ids, pc, reloads, disk>>
    /\ UNCHANGED pvars
    /\ UNCHANGED evars

\* registry.register(obj) with an object that exists already, registered
\* before or not
registry_register_again ==
    /\ \E oid \in 1..Len(heap) :
         /\ _plugins' = register(_plugins, oid)
         /\ response' = Response("register", oid, 0, FALSE, {})
    /\ UNCHANGED <<heap, _features, _registry, enabled_ids, pc, reloads, disk>>
    /\ UNCHANGED pvars
    /\ UNCHANGED evars

\* FeatureManager.register(feature) with a capability created for the call
manager_register ==
    /\ Len(heap) < MaxObjects
    /\ \E obj \in NewObjects(Len(heap) + 1) :
         /\ obj.kind = "feature"
         /\ heap' = Append(heap, obj)
         /\ _features' = Append(_features, Len(heap) + 1)
         /\ response' = Response("manager_register", Len(heap) + 1, 0, FALSE, {})
    /\ UNCHANGED <<_plugins, _registry, enabled_ids, pc, reloads, disk>>
    /\ UNCHANGED pvars
    /\ UNCHANGED evars

\* manager._registry = PluginRegistry()
attach_registry ==
    /\ _registry = "None"
    /\ _registry' = "PluginRegistry"
    /\ response' = Response("attach", "", 0, FALSE, {})
    /\ UNCHANGED <<heap, _plugins, _features, enabled_ids, pc, reloads, disk>>
    /\ UNCHANGED pvars
    /\ UNCHANGED evars

\* manager.refresh()
manager_refresh ==
    /\ LET r == refresh_manager(heap, _registry, _plugins, _features, enabled_ids, << >>)
       IN  /\ heap' = r.heap
           /\ _plugins' = r.plugins
           /\ _features' = r.features
    /\ response' = Response("refresh", "", 0, FALSE, {})
    /\ UNCHANGED <<_registry, enabled_ids, pc, reloads, disk>>
    /\ UNCHANGED pvars
    /\ UNCHANGED evars

NextManager ==
    \/ registry_register_new
    \/ registry_register_again
    \/ manager_register
    \/ attach_registry
    \/ manager_refresh

SpecManager == InitManager /\ [][NextManager]_vars

\* C15: a register call appends the object at the end of the Registry's
\* list when the list does not hold it and leaves the list as it is when it
\* does; the list never holds an object twice.
C15_RegisterIdempotent ==
    /\ [](\A i, j \in 1..Len(_plugins) : _plugins[i] = _plugins[j] => i = j)
    /\ [][ response'.op = "register" =>
             IF response'.id \in Range(_plugins)
             THEN _plugins' = _plugins
             ELSE _plugins' = Append(_plugins, response'.id) ]_vars

\* an object was registered a second time and the list of two objects
\* is in first-registration order
C15_Witness ==
    /\ response.op = "register"
    /\ response.id = 1
    /\ _plugins = <<1, 2>>

\* the position of the last object of seq that has the name of seq[i]
LastOfName(h, seq, i) ==
    CHOOSE j \in 1..Len(seq) :
        /\ h[seq[j]].name = h[seq[i]].name
        /\ \A k \in (j + 1)..Len(seq) : h[seq[k]].name # h[seq[i]].name

\* seq deduplicated by name: one entry per name, at the rank of the name's
\* first object, holding the name's last object
DedupByName(h, seq) ==
    LET firsts == SelectSeq([i \in 1..Len(seq) |-> i],
                            LAMBDA i : \A j \in 1..(i - 1) : h[seq[j]].name # h[seq[i]].name)
    IN  [k \in 1..Len(firsts) |-> seq[LastOfName(h, seq, firsts[k])]]

----------------------------------------------------------------------------
(* The Registry singleton and the Loader's injection                       *)
(* (features/registry.py PluginRegistry.__new__, core/loader.py).          *)
(* Here a registry object is told from another by its identifier, and what *)
(* it holds is a list of entries <<extension, kind, load>>.                *)

\* loads in one run
MaxLoads == 3

InstanceIds == <<"r1", "r2", "r3", "r4", "r5", "r6", "r7", "r8">>

\* the position of a registry object in instances
InstanceIndex(id) == CHOOSE k \in 1..Len(InstanceIds) : InstanceIds[k] = id

\* PluginRegistry() without the singleton check: every call constructs
new_always_fresh(inst, objs) ==
    [id |-> InstanceIds[Len(objs) + 1], _instance |-> InstanceIds[Len(objs) + 1],
     instances |-> Append(objs, << >>)]

\* PluginRegistry(): __new__ constructs the instance on the first call and
\* returns the stored one afterwards.  The result is the object returned,
\* the class attribute and the objects that exist after the call.
__new__(inst, objs) ==
    IF inst = "None"
    THEN [id |-> InstanceIds[Len(objs) + 1], _instance |-> InstanceIds[Len(objs) + 1],
          instances |-> Append(objs, << >>)]
    ELSE [id |-> inst, _instance |-> inst, instances |-> objs]

\* the extensions loaded here: dummy_plugin imports PluginRegistry itself,
\* which rebinds the injected name to the class, and registers an object
\* while it is executed; addon calls the injected PluginRegistry to register
\* a UI fragment while it is executed; editor exposes a route group, which
\* the Loader registers
InjectedExts == {"dummy_plugin", "addon", "editor"}

ImportsRegistryItself(name) == name = "dummy_plugin"

\* what the extension registers itself while its entry file is executed
AtImport(name) ==
    CASE name = "dummy_plugin" -> <<"instance">>
      [] name = "addon"        -> <<"fragment">>
      [] OTHER                 -> << >>

\* what the Loader registers for it after the execution
ByLoader(name) ==
    IF name = "editor" THEN <<"capability", "route_group">> ELSE <<"capability">>

\* obj.register(...) of every kind in kinds for one load of an extension
register_entries(objs, id, name, kinds, load) ==
    [objs EXCEPT ![InstanceIndex(id)] = @ \o [k \in 1..Len(kinds) |-> <<name, kinds[k], load>>]]

\* load_single_plugin(name, path, registry_instance) as far as the
\* registries are concerned
load_injected(inst, objs, name, registry_instance, load) ==
    LET \* actual_registry = registry_instance if registry_instance else PluginRegistry()
        a      == IF registry_instance # "None"
                  THEN [id |-> registry_instance, _instance |-> inst, instances |-> objs]
                  ELSE __new__(inst, objs)
        \* exec_module: the extension's own PluginRegistry() call
        b      == IF AtImport(name) = << >> \/ ~ImportsRegistryItself(name)
                  THEN [id |-> a.id, _instance |-> a._instance, instances |-> a.instances]
                  ELSE __new__(a._instance, a.instances)
        atimp  == register_entries(b.instances, b.id, name, AtImport(name), load)
    IN  [_instance |-> b._instance,
         instances |-> register_entries(atimp, a.id, name, ByLoader(name), load)]

InitInject ==
    /\ _instance = "None"
    /\ instances = << >>
    /\ _registry = "None"
    /\ heap = << >>
    /\ _plugins = << >>
    /\ _features = << >>
    /\ enabled_ids = {}
    /\ pc = "boot"
    /\ reloads = 0
    /\ response = Response("none", "", 0, FALSE, {})
    /\ disk = {}
    /\ _steps = << >>
    /\ input = << >>
    /\ content = << >>
    /\ run_pc = 0
    /\ export_response = NoExport
    /\ OtherIdle

\* the host takes its handle: FEATURES._registry = PluginRegistry()
host_handle ==
    /\ LET r == __new__(_instance, instances)
       IN  /\ _registry' = r.id
           /\ _instance' = r._instance
           /\ instances' = r.instances
    /\ response' = Response("handle", "", 0, FALSE, {})
    /\ UNCHANGED <<heap, _plugins, _features, enabled_ids, pc, reloads, disk, export_response>>
    /\ UNCHANGED <<core_plugins, refresh_plugins, before>>
    /\ UNCHANGED tvars
    /\ UNCHANGED pvars

\* a load: with the host's handle passed in (load_plugins(registry)) or
\* with none (the hot reload)
load_one ==
    /\ reloads < MaxLoads
    /\ \E name \in InjectedExts : \E registry_instance \in {"None", _registry} :
         /\ LET r == load_injected(_instance, instances, name, registry_instance, reloads + 1)
            IN  /\ _instance' = r._instance
                /\ instances' = r.instances
         /\ response' = Response("load", name, 0, FALSE, {})
    /\ reloads' = reloads + 1
    /\ UNCHANGED <<heap, _plugins, _features, enabled_ids, pc, disk, export_response, _registry>>
    /\ UNCHANGED <<core_plugins, refresh_plugins, before>>
    /\ UNCHANGED tvars
    /\ UNCHANGED pvars

NextInject == host_handle \/ load_one

SpecInject == InitInject /\ [][NextInject]_vars

\* C16: the process has at most one Registry, which is the one the class
\* holds; the handle of the host is that one; and whatever an extension
\* or the Loader registered in a load is held by it, hence by the registry
\* the Orchestrator reads.
C16_OneRegistry ==
    /\ Len(instances) <= 1
    /\ instances # << >> => _instance = InstanceIds[1]
    /\ _registry # "None" => _registry = _instance
    /\ \A k \in 1..Len(instances) : Range(instances[k]) \subseteq Range(instances[1])

\* dummy_plugin was loaded with no registry passed and addon with the
\* host's handle, and the registry the host reads holds the object and the
\* fragment they registered at import as well as their capabilities
C16_Witness ==
    /\ _registry = "r1"
    /\ \E l1, l2 \in 1..MaxLoads :
         {<<"dummy_plugin", "instance", l1>>, <<"dummy_plugin", "capability", l1>>,
          <<"addon", "fragment", l2>>, <<"addon", "capability", l2>>}
            \subseteq Range(instances[InstanceIndex(_registry)])

----------------------------------------------------------------------------
(* The core plugin registry (docnexus/core/registry.py)                     *)

\* the names a plugin's get_meta() may give: none, the empty string, a name
CoreNames == {"P1", "P2"}
MetaNames == {"absent", ""} \cup CoreNames

MaxCoreObjects == 2

\* the objects handed to register: oid is the identity; interface tells
\* whether the object is an instance of PluginInterface; name is what
\* get_meta().get('name') gives
CoreObjects ==
    [oid : 1..MaxCoreObjects, interface : BOOLEAN, name : MetaNames]

\* the position of a key in the dict, 0 when it is not a key
key_index(store, name) ==
    IF \E i \in 1..Len(store) : store[i][1] = name
    THEN CHOOSE i \in 1..Len(store) : store[i][1] = name
    ELSE 0

\* self._plugins[name] = plugin: a used key keeps its position
setitem(store, name, plugin) ==
    IF key_index(store, name) = 0
    THEN Append(store, <<name, plugin>>)
    ELSE [store EXCEPT ![key_index(store, name)] = <<name, plugin>>]

\* register that validates nothing and stores under whatever name it gets
core_register_unvalidated(store, plugin) ==
    [raised |-> "None", _plugins |-> setitem(store, plugin.name, plugin)]

\* PluginRegistry.register of the core registry
core_register(store, plugin) ==
    IF ~plugin.interface
    THEN [raised |-> "TypeError", _plugins |-> store]
    ELSE IF plugin.name \in {"absent", ""}
         THEN [raised |-> "ValueError", _plugins |-> store]
         ELSE [raised |-> "None", _plugins |-> setitem(store, plugin.name, plugin)]

\* Python's None, as an object that is no plugin
CoreNone == [oid |-> 0, interface |-> FALSE, name |-> "None"]

\* PluginRegistry.get_plugin: self._plugins.get(name)
get_plugin(store, name) ==
    IF key_index(store, name) = 0 THEN CoreNone ELSE store[key_index(store, name)][2]

\* PluginRegistry.get_all_plugins: list(self._plugins.values())
get_all_plugins(store) == [i \in 1..Len(store) |-> store[i][2]]

InitCore ==
    /\ threads = << >>
    /\ pipelines = << >>
    /\ core_plugins = << >>
    /\ refresh_plugins = << >>
    /\ before = << >>
    /\ export_response = NoExport
    /\ _registry = "None"
    /\ _instance = "None"
    /\ instances = << >>
    /\ heap = << >>
    /\ _plugins = << >>
    /\ _features = << >>
    /\ enabled_ids = {}
    /\ pc = "boot"
    /\ reloads = 0
    /\ response = [op |-> "none"]
    /\ disk = {}
    /\ _steps = << >>
    /\ input = << >>
    /\ content = << >>
    /\ run_pc = 0

CoreUnchanged ==
    UNCHANGED <<heap, _plugins, _features, enabled_ids, pc, reloads, disk,
                export_response, _registry, _instance, instances,
                refresh_plugins, before, _steps, input, content, run_pc,
                threads, pipelines>>

\* registry.register(plugin)
core_registry_register ==
    /\ \E plugin \in CoreObjects :
         LET r == core_register(core_plugins, plugin)
         IN  /\ core_plugins' = r._plugins
             /\ response' = [op |-> "register", plugin |-> plugin, raised |-> r.raised]
    /\ CoreUnchanged

\* registry.get_plugin(name)
core_registry_get_plugin ==
    /\ \E name \in CoreNames :
         response' = [op |-> "get_plugin", name |-> name,
                      result |-> get_plugin(core_plugins, name)]
    /\ core_plugins' = core_plugins
    /\ CoreUnchanged

\* registry.get_all_plugins()
core_registry_get_all_plugins ==
    /\ response' = [op |-> "get_all_plugins", result |-> get_all_plugins(core_plugins)]
    /\ core_plugins' = core_plugins
    /\ CoreUnchanged

NextCore ==
    \/ core_registry_register
    \/ core_registry_get_plugin
    \/ core_registry_get_all_plugins

SpecCore == InitCore /\ [][NextCore]_vars

\* the plugins stored under a name
StoredUnder(store, name) == { i \in 1..Len(store) : store[i][1] = name }

\* C17: register rejects an object that is not a PluginInterface with
\* TypeError and a plugin whose metadata has no name with ValueError, and
\* both leave the stored plugins as they were; after a successful
\* register(p), get_plugin(name) gives p itself, whether or not the name was
\* in use, the plugins under the other names stay, and at every moment
\* exactly one plugin is stored per name in use.
C17_CoreRegister ==
    /\ [](\A i, j \in 1..Len(core_plugins) :
             core_plugins[i][1] = core_plugins[j][1] => i = j)
    /\ [][ response'.op = "register" =>
             LET p == response'.plugin
             IN  IF ~p.interface
                 THEN response'.raised = "TypeError" /\ core_plugins' = core_plugins
                 ELSE IF p.name \notin CoreNames
                      THEN response'.raised = "ValueError" /\ core_plugins' = core_plugins
                      ELSE /\ response'.raised = "None"
                           /\ get_plugin(core_plugins', p.name) = p
                           /\ Cardinality(StoredUnder(core_plugins', p.name)) = 1
                           /\ Range(get_all_plugins(core_plugins')) =
                                (Range(get_all_plugins(core_plugins))
                                   \ {get_plugin(core_plugins, p.name)}) \cup {p}
         ]_vars

\* two plugins are stored, and the one under P1 is the second plugin that
\* was registered under that name
C17_Witness ==
    /\ response.op = "register"
    /\ response.raised = "None"
    /\ response.plugin.name = "P1"
    /\ response.plugin.oid = 2
    /\ Len(core_plugins) = 2
    /\ core_plugins[1] = <<"P1", response.plugin>>

----------------------------------------------------------------------------
(* A refresh running while requests are served (features/registry.py,      *)
(* app.py): the development server handles each request in a thread of its *)
(* own, and refresh takes no lock                                           *)

\* objects registered in one run
MaxRegistered == 3

\* the capabilities an extension's load may register: a pipeline step
\* named A or B, or the export handler for pdf
LoadedObjects(oid) ==
    { Feature("A", PositionHandlers[oid], "STANDARD", "ALGORITHM", "absent",
              "absent", "absent", "absent", "any"),
      Feature("B", PositionHandlers[oid], "EXPERIMENTAL", "ALGORITHM", "absent",
              "absent", "absent", "absent", "any"),
      Feature("pdf_export", PositionHandlers[oid], "STANDARD", "EXPORT_HANDLER", "pdf",
              "absent", "absent", "absent", "any") }

\* the host is serving with the Registry attached and nothing loaded yet
InitConcurrent ==
    /\ heap = << >>
    /\ _plugins = << >>
    /\ _features = << >>
    /\ _registry = "PluginRegistry"
    /\ enabled_ids = {}
    /\ pc = "serving"
    /\ reloads = 0
    /\ response = [op |-> "none"]
    /\ disk = {}
    /\ _steps = << >>
    /\ input = << >>
    /\ content = << >>
    /\ run_pc = 0
    /\ export_response = NoExport
    /\ _instance = "None"
    /\ instances = << >>
    /\ OtherIdle

\* a load registers a capability (before the refresh that follows it)
load_registers ==
    /\ pc = "serving"
    /\ Len(heap) < MaxRegistered
    /\ \E obj \in LoadedObjects(Len(heap) + 1) :
         /\ heap' = Append(heap, obj)
         /\ _plugins' = register(_plugins, Len(heap) + 1)
    /\ response' = [op |-> "register"]
    /\ UNCHANGED <<_features, enabled_ids, pc, reloads, disk>>
    /\ UNCHANGED pvars
    /\ UNCHANGED xvars

\* refresh up to its loop: the active set is cleared, the Registry's list
\* is read (no priority list is given, so it is not sorted)
refresh_enter ==
    /\ pc = "serving"
    /\ pc' = "refreshing"
    /\ before' = _features
    /\ _features' = << >>
    /\ refresh_plugins' = _plugins
    /\ response' = [op |-> "refresh"]
    /\ UNCHANGED <<heap, _plugins, enabled_ids, reloads, disk>>
    /\ UNCHANGED pvars
    /\ UNCHANGED <<export_response, _instance, instances, _registry, core_plugins>>
    /\ UNCHANGED tvars

\* one iteration of the loop of refresh
refresh_visit ==
    /\ pc = "refreshing"
    /\ refresh_plugins # << >>
    /\ LET r == refresh_step(heap, _features, Head(refresh_plugins), enabled_ids)
       IN  /\ heap' = r.heap
           /\ _features' = r.features
    /\ refresh_plugins' = Tail(refresh_plugins)
    /\ UNCHANGED <<_plugins, enabled_ids, pc, reloads, disk, response, before>>
    /\ UNCHANGED pvars
    /\ UNCHANGED <<export_response, _instance, instances, _registry, core_plugins>>
    /\ UNCHANGED tvars

\* the loop is over and refresh returns
refresh_exit ==
    /\ pc = "refreshing"
    /\ refresh_plugins = << >>
    /\ pc' = "serving"
    /\ UNCHANGED <<heap, _plugins, _features, enabled_ids, reloads, disk, response>>
    /\ UNCHANGED pvars
    /\ UNCHANGED xvars

\* a render request in another thread: FEATURES.build_pipeline
request_build_pipeline ==
    /\ \E enable_experimental \in BOOLEAN :
         /\ _steps' = build_pipeline(heap, _features, enable_experimental)
         /\ response' = [op |-> "build_pipeline", enable_experimental |-> enable_experimental]
    /\ UNCHANGED <<heap, _plugins, _features, enabled_ids, pc, reloads, disk>>
    /\ UNCHANGED <<input, content, run_pc>>
    /\ UNCHANGED xvars

\* an export request in another thread
request_export ==
    /\ \E fmt \in {"pdf", "docx"}, outcome \in HandlerOutcomes :
         handle_export_request(fmt, TRUE, outcome)
    /\ response' = [op |-> "export"]
    /\ UNCHANGED <<heap, _plugins, _features, enabled_ids, pc, reloads, disk>>
    /\ UNCHANGED pvars
    /\ UNCHANGED <<_instance, instances, _registry, core_plugins, refresh_plugins, before>>
    /\ UNCHANGED tvars

NextConcurrent ==
    \/ load_registers
    \/ refresh_enter
    \/ refresh_visit
    \/ refresh_exit
    \/ request_build_pipeline
    \/ request_export

SpecConcurrent == InitConcurrent /\ [][NextConcurrent]_vars

\* the active set the refresh in progress ends with
AfterRefresh == refresh(heap, _plugins, enabled_ids, << >>).features

\* C18: a pipeline built while a refresh is in progress is the pipeline of
\* the active set from before the refresh or of the active set after it,
\* and holds the handler of every capability that is active and qualifies
\* both before and after; an export request served meanwhile resolves what
\* the set before or the set after resolves.
C18_ReconcileAtomic ==
    pc = "refreshing" =>
        /\ response.op = "build_pipeline" =>
             /\ _steps \in { build_pipeline(heap, before, response.enable_experimental),
                             build_pipeline(heap, AfterRefresh, response.enable_experimental) }
             /\ \A oid \in Range(before) \cap Range(AfterRefresh) :
                    Qualifies(heap[oid], response.enable_experimental)
                        => heap[oid].handler \in Range(_steps)
        /\ response.op = "export" =>
             export_response.handler \in
                 { get_export_handler(heap, before, export_response.format),
                   get_export_handler(heap, AfterRefresh, export_response.format) }

----------------------------------------------------------------------------
(* Properties of a hot reload *)

\* the active capabilities that a load of extension id created
ActiveOf(h, features, id) == { o \in Range(features) : h[o].owner = id }

\* the capabilities the load that took the heap from h to h2 returned
ReturnedByLoad(h, h2) == { o \in (Len(h) + 1)..Len(h2) : is_duck_feature(h2[o]) }

\* C19: after the hot reload of an extension (install or uninstall answered
\* with 200) and the refresh that follows it, the active capabilities of the
\* extension are exactly the ones its latest load returned; when that load
\* raised there are none.
C19_ReloadReplaces ==
    [][ ( /\ reloads' = reloads + 1
          /\ response'.op \in {"install", "uninstall"}
          /\ response'.code = 200 )
        => ActiveOf(heap', _features', response'.id) = ReturnedByLoad(heap, heap')
      ]_vars

----------------------------------------------------------------------------
(* Further properties of the Registry and the FeatureManager on their own *)

\* the positions of the active set that are STANDARD capabilities of type
\* ALGORITHM
StandardAlgorithms ==
    { i \in 1..Len(_features) :
        heap[_features[i]].type = "ALGORITHM" /\ heap[_features[i]].state = "STANDARD" }

\* C21: after any sequence of FeatureManager.register, Registry
\* registrations and refreshes, no two active STANDARD capabilities of type
\* ALGORITHM have the same name (every one of them is a step of the
\* pipeline build_pipeline returns unless its installed flag is false).
C21_UniqueStandardNames ==
    \A i, j \in StandardAlgorithms :
        heap[_features[i]].name = heap[_features[j]].name => i = j

----------------------------------------------------------------------------
(* Properties of the administrative routes *)

\* C22: a request that changes the Enablement Store also reloads the
\* extension and then refreshes within the same request, so that when it
\* has answered, with success or with an error, the active set is the one a
\* refresh gives for the new store.
C22_MutationThenReloadAndReconcile ==
    [][ enabled_ids' # enabled_ids =>
          /\ reloads' = reloads + 1
          /\ _features' = refresh(heap', _plugins', enabled_ids', << >>).features
      ]_vars

----------------------------------------------------------------------------
(* The state check of refresh on its own (features/registry.py:180-198) *)

\* capabilities registered in one run
MaxChecked == 2

\* the extension whose marker comes and goes
CheckedExts == {"x"}

\* what the meta of a capability may hold: plugin_id or not, preinstalled
\* or not, installed True, False or not at all
CheckedShapes(name, owner) ==
    { Feature(name, "h", "STANDARD", "ALGORITHM", "absent", inst, pid, pre, owner) :
        inst \in {"absent", "True", "False"},
        pid \in {"absent", owner},
        pre \in {"absent", "True"} }

\* a Registry holding up to MaxChecked capabilities of the extension, with
\* names of their own, any store, and nothing active yet
InitStateCheck ==
    /\ \E n \in 1..MaxChecked :
         heap \in [1..n -> UNION { CheckedShapes(nm, "x") : nm \in {"A", "B"} }]
    /\ \A i, j \in 1..Len(heap) : heap[i].name = heap[j].name => i = j
    /\ _plugins = [i \in 1..Len(heap) |-> i]
    /\ _features = << >>
    /\ _registry = "PluginRegistry"
    /\ enabled_ids \in SUBSET CheckedExts
    /\ pc = "serving"
    /\ reloads = 0
    /\ response = Response("none", "", 0, FALSE, {})
    /\ disk = {}
    /\ _steps = << >>
    /\ input = << >>
    /\ content = << >>
    /\ run_pc = 0
    /\ export_response = NoExport
    /\ _instance = "None"
    /\ instances = << >>
    /\ OtherIdle

\* the ENABLED marker of an extension is created (installer.install) or
\* removed (uninstall_plugin)
set_marker ==
    /\ \E id \in CheckedExts :
         /\ enabled_ids' = IF id \in enabled_ids THEN enabled_ids \ {id}
                           ELSE enabled_ids \cup {id}
         /\ response' = Response("marker", id, 0, FALSE, {})
    /\ UNCHANGED <<heap, _plugins, _features, pc, reloads, disk>>
    /\ UNCHANGED pvars
    /\ UNCHANGED xvars

NextStateCheck == set_marker \/ manager_refresh

SpecStateCheck == InitStateCheck /\ [][NextStateCheck]_vars

\* C23: a refresh sets the installed flag of a capability to false exactly
\* when its extension is not preinstalled and not in the enabled set, and
\* in every other case leaves the flag as the capability's meta had it; so
\* a capability declared installed False stays not installed when its
\* extension is enabled.
C23_EffectiveInstalled ==
    [][ response'.op = "refresh" =>
          \A o \in Range(_plugins) :
             heap'[o].installed =
                IF heap[o].preinstalled # "True" /\ heap[o].owner \notin enabled_ids
                THEN "False"
                ELSE heap[o].installed
      ]_vars

----------------------------------------------------------------------------
(* Properties of refresh towards the Registry *)

\* the Registry's objects in the order they were registered: an object is
\* registered when it is created, so the order is that of the identities
RegistrationOrder(plugins) ==
    [k \in 1..Cardinality(Range(plugins)) |->
        CHOOSE x \in Range(plugins) : Cardinality({y \in Range(plugins) : y < x}) = k - 1]

\* C24: refresh(priority_list) leaves the Registry's list as it was, and a
\* refresh with no priority order gives the active set in registration
\* order whatever priority orders earlier refreshes were given.
C24_RefreshLeavesRegistry ==
    [][ response'.op = "refresh" =>
          /\ _plugins' = _plugins
          /\ response'.priority = << >> =>
               _features' = DedupByName(heap', SelectSeq(RegistrationOrder(_plugins'),
                                                        LAMBDA o : heap'[o].kind = "feature"))
      ]_vars

----------------------------------------------------------------------------
(* Two administrative actions at once (app.py:204-217, 252-278): each runs *)
(* in a request thread of its own, reloads its extension and refreshes, and *)
(* nothing serialises them                                                  *)

\* the request threads
Threads == {1, 2}

\* a capability as a reload of an extension creates it
Reloaded(name, oid) ==
    Feature(name, PositionHandlers[oid], "STANDARD", "ALGORITHM", "absent",
            "absent", "absent", "absent", "any")

\* a thread that has not started its action
IdleThread == [pc |-> "idle", i |-> 0, existing_idx |-> 0]

\* the host is serving: the capabilities A and B of two extensions are
\* registered and active, and two administrative requests have arrived
InitTwoActions ==
    /\ heap = << Reloaded("A", 1), Reloaded("B", 2) >>
    /\ _plugins = <<1, 2>>
    /\ _features = <<1, 2>>
    /\ _registry = "PluginRegistry"
    /\ enabled_ids = {}
    /\ pc = "serving"
    /\ reloads = 0
    /\ response = [op |-> "none"]
    /\ disk = {}
    /\ _steps = << >>
    /\ input = << >>
    /\ content = << >>
    /\ run_pc = 0
    /\ export_response = NoExport
    /\ _instance = "None"
    /\ instances = << >>
    /\ core_plugins = << >>
    /\ refresh_plugins = << >>
    /\ before = << >>
    /\ pipelines = << >>
    /\ threads = [t \in Threads |-> IdleThread]

TwoActionsUnchanged ==
    UNCHANGED <<enabled_ids, pc, reloads, disk, _steps, input, content, run_pc,
                export_response, _registry, _instance, instances, core_plugins,
                refresh_plugins, before, pipelines>>

\* load_single_plugin of the action: the entry file is executed again and
\* the capability it returns is registered, or the entry file raises
action_load(t) ==
    /\ threads[t].pc = "idle"
    /\ \/ \E name \in {"A", "B"} :
            /\ heap' = Append(heap, Reloaded(name, Len(heap) + 1))
            /\ _plugins' = register(_plugins, Len(heap) + 1)
       \/ UNCHANGED <<heap, _plugins>>
    /\ threads' = [threads EXCEPT ![t].pc = "clear"]
    /\ response' = [op |-> "load", thread |-> t]
    /\ UNCHANGED _features
    /\ TwoActionsUnchanged

\* refresh up to its loop: self._features = [], plugins is the Registry's
\* own list
action_clear(t) ==
    /\ threads[t].pc = "clear"
    /\ _features' = << >>
    /\ threads' = [threads EXCEPT ![t] = [pc |-> "loop", i |-> 0, existing_idx |-> 0]]
    /\ response' = [op |-> "clear", thread |-> t]
    /\ UNCHANGED <<heap, _plugins>>
    /\ TwoActionsUnchanged

\* the loop of refresh takes the next object of the Registry's list, does
\* the state check and looks the name up in self._features; or the list is
\* exhausted and refresh returns
action_lookup(t) ==
    /\ threads[t].pc = "loop"
    /\ IF threads[t].i >= Len(_plugins)
       THEN /\ threads' = [threads EXCEPT ![t].pc = "done"]
            /\ UNCHANGED heap
       ELSE LET oid == _plugins[threads[t].i + 1]
            IN  IF is_duck_feature(heap[oid])
                THEN /\ heap' = [heap EXCEPT ![oid].installed = state_check(heap[oid], enabled_ids)]
                     /\ threads' = [threads EXCEPT
                                      ![t].pc = "write",
                                      ![t].existing_idx = existing_idx(heap', _features, heap'[oid].name)]
                ELSE /\ threads' = [threads EXCEPT ![t].i = threads[t].i + 1]
                     /\ UNCHANGED heap
    /\ response' = [op |-> "lookup", thread |-> t]
    /\ UNCHANGED <<_plugins, _features>>
    /\ TwoActionsUnchanged

\* the loop of refresh writes the object into self._features: at the
\* position it found, or appended.  The position may lie beyond the end of
\* the list another thread has put in place meanwhile: the assignment
\* raises IndexError, which leaves refresh and is caught by the route.
action_write(t) ==
    /\ threads[t].pc = "write"
    /\ LET oid == _plugins[threads[t].i + 1]
           idx == threads[t].existing_idx
       IN  IF idx > Len(_features)
           THEN /\ threads' = [threads EXCEPT ![t].pc = "raised"]
                /\ UNCHANGED _features
           ELSE /\ _features' = IF idx > 0 THEN [_features EXCEPT ![idx] = oid]
                                ELSE Append(_features, oid)
                /\ threads' = [threads EXCEPT ![t].pc = "loop", ![t].i = threads[t].i + 1]
    /\ response' = [op |-> "write", thread |-> t]
    /\ UNCHANGED <<heap, _plugins>>
    /\ TwoActionsUnchanged

NextTwoActions ==
    \E t \in Threads :
        \/ action_load(t)
        \/ action_clear(t)
        \/ action_lookup(t)
        \/ action_write(t)

SpecTwoActions == InitTwoActions /\ [][NextTwoActions]_vars

\* both requests have been answered
BothFinished == \A t \in Threads : threads[t].pc \in {"done", "raised"}

\* C25: once two overlapping administrative actions have both finished, the
\* active set has one entry per name and is what a single refresh gives for
\* the Registry and the Enablement Store as they are then.
C25_OverlappingActions ==
    BothFinished =>
        /\ \A i, j \in 1..Len(_features) :
              heap[_features[i]].name = heap[_features[j]].name => i = j
        /\ _features = refresh(heap, _plugins, enabled_ids, << >>).features

----------------------------------------------------------------------------
(* refresh over a Registry with malformed entries                           *)
(* (features/registry.py:176-213)                                           *)

\* Registry entries in one run
MaxEntries == 3

\* an object that lacks one of the attributes the duck-typing check of
\* refresh asks for
Lacking(attr) ==
    [PluginInstance("any") EXCEPT !.kind = attr]

\* what the Registry may hold: capabilities named A or B, with or without
\* plugin_id in meta, declared installed False or not at all, and objects
\* without a name, a type or a handler
Entries ==
    { Feature(n, "h", "STANDARD", "ALGORITHM", "absent", inst, pid, "absent", "any") :
        n \in {"A", "B"}, inst \in {"absent", "False"}, pid \in {"absent", "x"} }
    \cup { Lacking(attr) : attr \in {"no_name", "no_type", "no_handler"} }

\* the state check without its try/except: an exception of
\* is_plugin_installed leaves refresh
state_check_no_try(p, store, failing_ids) ==
    IF p.plugin_id # "absent" /\ p.preinstalled # "True"
    THEN IF p.plugin_id \in failing_ids
         THEN [raised |-> TRUE, installed |-> p.installed]
         ELSE [raised |-> FALSE, installed |-> PyBool(is_plugin_installed(store, p.plugin_id))]
    ELSE [raised |-> FALSE, installed |-> p.installed]

\* the STATE CHECK of refresh where is_plugin_installed raises for the
\* identifiers in failing_ids: the exception is caught and meta is left
\* as it is
state_check_try(p, store, failing_ids) ==
    IF p.plugin_id # "absent" /\ p.preinstalled # "True"
    THEN IF p.plugin_id \in failing_ids
         THEN [raised |-> FALSE, installed |-> p.installed]
         ELSE [raised |-> FALSE, installed |-> PyBool(is_plugin_installed(store, p.plugin_id))]
    ELSE [raised |-> FALSE, installed |-> p.installed]

\* the loop of refresh; an exception ends it with what it has done so far
RECURSIVE refresh_try_loop(_, _, _, _, _)
refresh_try_loop(h, features, rest, store, failing_ids) ==
    IF rest = << >> THEN [heap |-> h, features |-> features, raised |-> FALSE]
    ELSE LET oid == Head(rest)
         IN  IF ~is_duck_feature(h[oid])
             THEN refresh_try_loop(h, features, Tail(rest), store, failing_ids)
             ELSE LET c   == state_check_try(h[oid], store, failing_ids)
                      h2  == [h EXCEPT ![oid].installed = c.installed]
                      idx == existing_idx(h2, features, h2[oid].name)
                  IN  IF c.raised
                      THEN [heap |-> h, features |-> features, raised |-> TRUE]
                      ELSE refresh_try_loop(h2,
                               IF idx > 0 THEN [features EXCEPT ![idx] = oid]
                               ELSE Append(features, oid),
                               Tail(rest), store, failing_ids)

InitMalformed ==
    /\ \E n \in 1..MaxEntries : heap \in [1..n -> Entries]
    /\ _plugins = [i \in 1..Len(heap) |-> i]
    /\ _features = << >>
    /\ _registry = "PluginRegistry"
    /\ enabled_ids \in SUBSET {"x"}
    /\ pc = "serving"
    /\ reloads = 0
    /\ response = Response("none", "", 0, FALSE, {})
    /\ disk = {}
    /\ _steps = << >>
    /\ input = << >>
    /\ content = << >>
    /\ run_pc = 0
    /\ export_response = NoExport
    /\ _instance = "None"
    /\ instances = << >>
    /\ OtherIdle

\* FEATURES.refresh() while is_plugin_installed raises for failing_ids
refresh_malformed ==
    /\ \E failing_ids \in SUBSET {"x"} :
         LET r == refresh_try_loop(heap, << >>, _plugins, enabled_ids, failing_ids)
         IN  /\ heap' = r.heap
             /\ _features' = r.features
             /\ response' = Response("refresh", "", 0, r.raised, failing_ids)
    /\ UNCHANGED <<_plugins, enabled_ids, pc, reloads, disk>>
    /\ UNCHANGED pvars
    /\ UNCHANGED xvars

NextMalformed == refresh_malformed \/ set_marker

SpecMalformed == InitMalformed /\ [][NextMalformed]_vars

----------------------------------------------------------------------------
(* Pipelines once built (features/registry.py:24-52, 271-293) *)

\* pipelines built in one run
MaxPipelines == 2

\* build_pipeline keeping one Pipeline object and filling it again at each
\* call
reuse_pipeline(built, steps) ==
    IF built = << >> THEN << steps >> ELSE [built EXCEPT ![Len(built)] = steps]

\* pipeline = Pipeline("StandardPipeline") followed by the add_step calls:
\* a new object with a list of its own
new_pipeline(built, steps) == Append(built, steps)

InitBuild ==
    /\ heap = << >>
    /\ _plugins = << >>
    /\ _features = << >>
    /\ _registry = "PluginRegistry"
    /\ enabled_ids = {}
    /\ pc = "serving"
    /\ reloads = 0
    /\ response = [op |-> "none"]
    /\ disk = {}
    /\ _steps = << >>
    /\ input = << >>
    /\ content = << >>
    /\ run_pc = 0
    /\ export_response = NoExport
    /\ _instance = "None"
    /\ instances = << >>
    /\ OtherIdle

\* a render request: FEATURES.build_pipeline(enable_experimental)
render_build_pipeline ==
    /\ Len(pipelines) < MaxPipelines
    /\ \E enable_experimental \in BOOLEAN :
         /\ pipelines' = new_pipeline(pipelines, build_pipeline(heap, _features, enable_experimental))
         /\ response' = [op |-> "build_pipeline", enable_experimental |-> enable_experimental]
    /\ UNCHANGED <<heap, _plugins, _features, enabled_ids, pc, reloads, disk>>
    /\ UNCHANGED pvars
    /\ UNCHANGED <<export_response, _instance, instances, _registry, core_plugins,
                   refresh_plugins, before, threads>>

NextBuild ==
    \/ load_registers
    \/ manager_refresh
    \/ set_marker
    \/ render_build_pipeline

SpecBuild == InitBuild /\ [][NextBuild]_vars

\* C27: every step of the host (a load, a change of the store, a refresh, a
\* build) leaves the pipelines built so far with the steps they had;
\* build_pipeline returns a further Pipeline whose steps are those of the
\* qualifying active capabilities, and leaves the active set, the Registry,
\* the objects and the Enablement Store as they were.
C27_PipelineFixed ==
    [][ /\ Len(pipelines') >= Len(pipelines)
        /\ \A k \in 1..Len(pipelines) : pipelines'[k] = pipelines[k]
        /\ response'.op = "build_pipeline" =>
             /\ Len(pipelines') = Len(pipelines) + 1
             /\ pipelines'[Len(pipelines')] =
                  build_pipeline(heap, _features, response'.enable_experimental)
             /\ <<heap, _plugins, _features, enabled_ids>>' =
                  <<heap, _plugins, _features, enabled_ids>>
      ]_vars

\* after a refresh the first pipeline still has the step it was built
\* with, although a pipeline built now would have another, and a second
\* pipeline has been built
C27_Witness ==
    /\ Len(pipelines) = 2
    /\ pipelines[1] = <<"h1">>
    /\ pipelines[2] = <<"h2">>
    /\ build_pipeline(heap, _features, FALSE) = <<"h2">>

----------------------------------------------------------------------------
(* Properties of the Registry's route groups *)

\* the route groups a Registry object holds for an extension
RouteGroups(k, name) ==
    { i \in 1..Len(instances[k]) :
        instances[k][i][1] = name /\ instances[k][i][2] = "route_group" }

\* C28: after any sequence of loads and hot reloads the Registry's
\* route-group list holds at most one route group per extension.
C28_RouteGroupOnce ==
    \A k \in 1..Len(instances) : \A name \in InjectedExts :
        Cardinality(RouteGroups(k, name)) <= 1

----------------------------------------------------------------------------
(* One extension in several search roots (loader.py:31-66, 163-175) *)

\* hot reloads in one run
MaxRootReloads == 2

\* the extension directories that may exist: <<root, extension>>
RootDirs == { <<SearchRoots[i], x>> : i \in 1..Len(SearchRoots), x \in {"shared", "other", "third"} }

\* the order in which a root's candidates are visited
RootOrder == <<"shared", "other", "third">>

\* the handler of the capability an entry file of a root creates
RootHandler(root) == IF root = SearchRoots[1] THEN "external" ELSE "internal"

\* get_features() of the extension's entry file in a root: one capability,
\* named after the extension
root_features(root, x) ==
    Feature(x, RootHandler(root), "STANDARD", "ALGORITHM", "absent",
            "absent", "absent", "absent", x)

\* the candidates load_plugins_from_path finds in a root, as
\* <<root, extension>> pairs
root_candidates(dirs, root) ==
    LET found == SelectSeq(RootOrder, LAMBDA x : <<root, x>> \in dirs)
    IN  [k \in 1..Len(found) |-> <<root, found[k]>>]

\* load_plugins visiting the internal root ahead of the external one
scan_order_internal_first(dirs, i) ==
    root_candidates(dirs, SearchRoots[2]) \o root_candidates(dirs, SearchRoots[1])

\* the <<root, extension>> pairs load_plugins visits, in its order: the
\* roots as get_plugin_paths lists them, each with its candidates
RECURSIVE scan_order(_, _)
scan_order(dirs, i) ==
    IF i > Len(SearchRoots) THEN << >>
    ELSE root_candidates(dirs, SearchRoots[i]) \o scan_order(dirs, i + 1)

\* load_single_plugin for each visited pair: the capability is created and
\* registered
RECURSIVE load_visited(_, _, _)
load_visited(h, plugins, visited) ==
    IF visited = << >> THEN [heap |-> h, plugins |-> plugins]
    ELSE load_visited(Append(h, root_features(Head(visited)[1], Head(visited)[2])),
                      register(plugins, Len(h) + 1), Tail(visited))

\* the root the administrative routes take an extension from: the first
\* root of get_plugin_paths that holds it
target_path(dirs, x) ==
    SearchRoots[CHOOSE i \in 1..Len(SearchRoots) :
                   /\ <<SearchRoots[i], x>> \in dirs
                   /\ \A j \in 1..(i - 1) : <<SearchRoots[j], x>> \notin dirs]

InitRoots ==
    /\ disk \in SUBSET RootDirs
    /\ heap = << >>
    /\ _plugins = << >>
    /\ _features = << >>
    /\ _registry = "None"
    /\ enabled_ids = {}
    /\ pc = "boot"
    /\ reloads = 0
    /\ response = Response("none", "", 0, FALSE, {})
    /\ _steps = << >>
    /\ input = << >>
    /\ content = << >>
    /\ run_pc = 0
    /\ export_response = NoExport
    /\ _instance = "None"
    /\ instances = << >>
    /\ OtherIdle

\* start-up: load_plugins(registry) and FEATURES.refresh()
roots_startup ==
    /\ pc = "boot"
    /\ LET l == load_visited(heap, _plugins, scan_order(disk, 1))
           r == refresh(l.heap, l.plugins, enabled_ids, << >>)
       IN  /\ heap' = r.heap
           /\ _plugins' = r.plugins
           /\ _features' = r.features
    /\ pc' = "serving"
    /\ _registry' = "PluginRegistry"
    /\ response' = Response("load_plugins", "", 0, FALSE, {})
    /\ UNCHANGED <<enabled_ids, reloads, disk>>
    /\ UNCHANGED pvars
    /\ UNCHANGED evars

\* the hot reload of an administrative route and its refresh
roots_reload ==
    /\ pc = "serving"
    /\ reloads < MaxRootReloads
    /\ \E x \in { d[2] : d \in disk } :
         /\ LET l == load_visited(heap, _plugins, << <<target_path(disk, x), x>> >>)
                r == refresh(l.heap, l.plugins, enabled_ids, << >>)
            IN  /\ heap' = r.heap
                /\ _plugins' = r.plugins
                /\ _features' = r.features
         /\ response' = Response("reload", x, 200, FALSE, {})
    /\ reloads' = reloads + 1
    /\ UNCHANGED <<enabled_ids, pc, disk>>
    /\ UNCHANGED pvars
    /\ UNCHANGED xvars

NextRoots == roots_startup \/ roots_reload

SpecRoots == InitRoots /\ [][NextRoots]_vars

\* the positions of the Registry that hold a capability of a name
OfName(name) == { i \in 1..Len(_plugins) : heap[_plugins[i]].name = name }

\* the number of names the Registry holds ahead of position i
NamesAhead(i) == Cardinality({ heap[_plugins[j]].name : j \in 1..(i - 1) })

----------------------------------------------------------------------------
(* Growth of the Registry *)

\* the capabilities among a set of Registry objects
CapabilitiesIn(h, oids) == { o \in oids : h[o].kind = "feature" }

\* C30: no step of the host removes an object from the Registry, so its
\* length never decreases; a hot reload whose entry file does not raise
\* adds one new capability object per capability get_features returns and
\* keeps the superseded ones; and whenever a refresh has run the active set
\* has as many entries as the Registry's capabilities have names.
C30_RegistryNeverShrinks ==
    /\ [](pc \in {"loaded", "serving"} =>
            Len(_features) =
               Cardinality({ heap[o].name : o \in CapabilitiesIn(heap, Range(_plugins)) }))
    /\ [][ /\ Range(_plugins) \subseteq Range(_plugins')
           /\ Len(_plugins') >= Len(_plugins)
           /\ (reloads' = reloads + 1 /\ ~response'.raised) =>
                Cardinality(CapabilitiesIn(heap', Range(_plugins') \ Range(_plugins)))
                   = Len(get_features(response'.id, enabled_ids'))
      ]_vars

\* an extension has been reloaded twice without raising: the Registry
\* holds three capabilities of one name, one of them active
C30_Witness ==
    /\ reloads = 2
    /\ \E a, b, c \in Range(_plugins) :
         /\ a < b /\ b < c
         /\ heap[a].kind = "feature"
         /\ heap[a].name = heap[b].name /\ heap[b].name = heap[c].name
         /\ c \in Range(_features)
         /\ a \notin Range(_features) /\ b \notin Range(_features)

====
